---- MODULE Spec2Model ----
(***************************************************************************)
(* httpx: the outbound request pipeline.                                   *)
(*                                                                         *)
(* A client owns an Options record and a transport: a chain of layers      *)
(* (middlewareTransport boundary, user middlewares, retryTransport) over   *)
(* a base transport.  One request is executed by walking the chain with a  *)
(* call stack, one frame per layer entered; the base transport is the      *)
(* environment and answers the i-th invocation from a script.              *)
(***************************************************************************)
EXTENDS Integers, Sequences, FiniteSets, TLC

\* ------------------------------------------------------------------ bounds
MaxRetriesBound == 2
ScriptLen == 3
MaxInitMws == 2
MaxRebuilds == 1
MaxGlobalCalls == 4
MaxDurationNs == 8
MaxAttemptIndex == 5
JitterSteps == 4

\* ------------------------------------------------------------------ values
\* Outcomes the base transport can produce for one invocation: a response
\* with one of these status codes, or a transport error.
BaseStatuses == {200, 503}
BaseOutcomes ==
    {[status |-> st, fails |-> FALSE] : st \in BaseStatuses}
        \cup {[status |-> 0, fails |-> TRUE]}

\* RetryIf values: "nil" is an unset Options.RetryIf, the others are
\* caller-supplied predicates.
UserRetryIfs == {"always", "never"}

NilResp == [id |-> 0, status |-> 0]
NilErr == [kind |-> "nil", id |-> 0]
CtxErr == [kind |-> "ctx", id |-> 0]
TransportErr(i) == [kind |-> "transport", id |-> i]

NoRet == [set |-> FALSE, resp |-> NilResp, err |-> NilErr]
Ret(resp, err) == [set |-> TRUE, resp |-> resp, err |-> err]

VARIABLES
    opts,       \* Client.opts: MaxRetries, RetryIf, Middlewares
    transport,  \* Client.httpClient.Transport: layers, outermost first, over the base transport
    nrebuilds,  \* number of Client.WithMiddleware calls made
    pc,         \* "idle" | "running" | "done": the one request of the run
    stack,      \* one frame per layer the request is inside of
    ret,        \* (resp, err) being returned to the top frame
    result,     \* (resp, err) returned to the caller
    ctxDone,    \* the request's context is cancelled
    script,     \* the base transport's behaviour
    calls,      \* base transport invocations so far
    closes,     \* closes[i]: Body.Close() calls on the response of invocation i
    reqTrace,   \* markers appended by middlewares on the way in
    respTrace,  \* markers appended by middlewares on the way out
    cancelAt,   \* where the request was when its context was cancelled
    timers,     \* backoff timers of the request started by time.After and not yet fired
    derived,    \* the contexts derived by TimeoutMiddleware, in order of creation
    bodyRead,   \* the caller's read of the returned response body
    defaultClient,      \* the package variable defaultClient
    defaultClientOnce,  \* defaultClientOnce has run
    shortcuts,  \* the clients the global shortcut calls executed on, oldest first
    fin,        \* the arguments of a function under test
    fout,       \* its result
    inflight    \* the calls running concurrently through one retryTransport

vars == <<opts, transport, nrebuilds, pc, stack, ret, result, ctxDone, script,
          calls, closes, reqTrace, respTrace, cancelAt, timers, derived, bodyRead,
          defaultClient, defaultClientOnce, shortcuts, fin, fout, inflight>>

\* the state outside the client and its one request
elsewhere == <<defaultClient, defaultClientOnce, shortcuts, fin, fout, inflight>>

\* the client and its one request
pipeline == <<opts, transport, nrebuilds, pc, stack, ret, result, ctxDone, script,
              calls, closes, reqTrace, respTrace, cancelAt, timers, derived, bodyRead>>

NoClient == "nil"
NoValue == [set |-> FALSE]

Untouched ==
    /\ defaultClient = NoClient
    /\ defaultClientOnce = FALSE
    /\ shortcuts = <<>>
    /\ fin = NoValue
    /\ fout = NoValue
    /\ inflight = <<>>

\* ------------------------------------------------------------------ layers
MtLayer == [kind |-> "mt", name |-> 0, maxRetries |-> 0, retryIf |-> ""]
\* a marker middleware is named by its position in the order of declaration
MwLayer(m) == [kind |-> "mw", name |-> m, maxRetries |-> 0, retryIf |-> ""]
\* the RoundTripFunc that TimeoutMiddleware(timeout) returns
TimeoutLayer == [kind |-> "timeout", name |-> 0, maxRetries |-> 0, retryIf |-> ""]
\* the entry of Options.Middlewares that is TimeoutMiddleware(timeout)
TimeoutMw == 0
\* the RoundTripFuncs that LoggingMiddleware() and MetricsMiddleware(name)
\* return, and the entries of Options.Middlewares that stand for them
LoggingMw == -1
MetricsMw == -2
LoggingLayer == [kind |-> "logging", name |-> LoggingMw, maxRetries |-> 0, retryIf |-> ""]
MetricsLayer == [kind |-> "metrics", name |-> MetricsMw, maxRetries |-> 0, retryIf |-> ""]
\* opts.Middlewares[i](rt): the layer a middleware puts around rt
LayerOf(m) ==
    CASE m = TimeoutMw -> TimeoutLayer
      [] m = LoggingMw -> LoggingLayer
      [] m = MetricsMw -> MetricsLayer
      [] OTHER -> MwLayer(m)
RetryLayer(n, f) == [kind |-> "retry", name |-> 0, maxRetries |-> n, retryIf |-> f]
BaseLayer == [kind |-> "base", name |-> 0, maxRetries |-> 0, retryIf |-> ""]

\* faulty variant: a rate-limited response (429) is not retried
DefaultRetryIfMisses429(resp, err) ==
    IF err # NilErr THEN TRUE
    ELSE IF resp = NilResp THEN FALSE
    ELSE resp.status >= 500

\* retry.go DefaultRetryIf
DefaultRetryIf(resp, err) ==
    IF err # NilErr THEN TRUE
    ELSE IF resp = NilResp THEN FALSE
    ELSE resp.status >= 500 \/ resp.status = 429

\* rt.retryIf(resp, err)
RetryIf(f, resp, err) ==
    CASE f = "default" -> DefaultRetryIf(resp, err)
      [] f = "always" -> TRUE
      [] f = "never" -> FALSE

\* faulty variant: the middlewares are applied first to last, so the last declared is outermost
RECURSIVE ApplyMiddlewaresForward(_, _, _)
ApplyMiddlewaresForward(mws, i, rt) ==
    IF i = 0 THEN rt
    ELSE ApplyMiddlewaresForward(mws, i - 1, <<LayerOf(mws[Len(mws) - i + 1])>> \o rt)

\* the loop "for i := len(opts.Middlewares) - 1; i >= 0; i-- { rt = opts.Middlewares[i](rt) }"
RECURSIVE ApplyMiddlewares(_, _, _)
ApplyMiddlewares(mws, i, rt) ==
    IF i = 0 THEN rt
    ELSE ApplyMiddlewares(mws, i - 1, <<LayerOf(mws[i])>> \o rt)

\* "retryIf := opts.RetryIf; if retryIf == nil { retryIf = DefaultRetryIf }"
retryIfOf(o) == IF o.RetryIf = "nil" THEN "default" ELSE o.RetryIf

\* faulty variant: a single retry is not worth a retry layer
WrapRetryAboveOne(base, o) ==
    IF o.MaxRetries > 1
    THEN <<RetryLayer(o.MaxRetries, retryIfOf(o))>> \o base
    ELSE base

\* step 1 of buildMiddlewareChain: the retry layer (innermost)
WrapRetry(base, o) ==
    IF o.MaxRetries > 0
    THEN <<RetryLayer(o.MaxRetries, retryIfOf(o))>> \o base
    ELSE base

\* faulty variant: the retry layer is put around the middlewares
buildMiddlewareChainRetryOutermost(base, o) ==
    <<MtLayer>> \o WrapRetry(ApplyMiddlewares(o.Middlewares, Len(o.Middlewares), base), o)

buildMiddlewareChain(base, o) ==
    <<MtLayer>> \o ApplyMiddlewares(o.Middlewares, Len(o.Middlewares), WrapRetry(base, o))

\* c.httpClient.Transport.(*middlewareTransport).base
MtBase(t) == Tail(t)

\* ------------------------------------------------------------------ request state
Frame(p, a, resp, err) == [pc |-> p, attempt |-> a, resp |-> resp, err |-> err]
EnterFrame == Frame("enter", 0, NilResp, NilErr)

Depth == Len(stack)
Top == stack[Depth]
LayerAt(d) == IF d <= Len(transport) THEN transport[d] ELSE BaseLayer
TopLayer == LayerAt(Depth)
Front(s) == SubSeq(s, 1, Len(s) - 1)
SetTop(f) == [stack EXCEPT ![Depth] = f]

\* the outcome of the i-th invocation of a base transport behaving as sc
ScriptOutcome(sc, i) ==
    LET o == sc[IF i <= Len(sc) THEN i ELSE Len(sc)]
    IN IF o.fails THEN Ret(NilResp, TransportErr(i))
       ELSE Ret([id |-> i, status |-> o.status], NilErr)

\* the outcome of the i-th invocation of the base transport
BaseOutcome(i) == ScriptOutcome(script, i)

Scripts == [1..ScriptLen -> BaseOutcomes]
SteadyScripts == {s \in Scripts : \A i \in 1..ScriptLen : s[i] = s[1]}

FreshRequest ==
    /\ pc = "idle"
    /\ stack = <<>>
    /\ ret = NoRet
    /\ result = NoRet
    /\ ctxDone = FALSE
    /\ script = <<>>
    /\ calls = 0
    /\ closes = <<>>
    /\ reqTrace = <<>>
    /\ respTrace = <<>>
    /\ cancelAt = [where |-> "none", attempt |-> 0]
    /\ timers = 0
    /\ derived = <<>>
    /\ bodyRead = "none"

\* a context made by context.WithTimeout in the timeout layer at depth d
Derived(d) == [layer |-> d, expired |-> FALSE, released |-> FALSE]

\* the contexts in force: of each timeout layer, the one it made last
InForce == {i \in 1..Len(derived) :
              \A j \in (i + 1)..Len(derived) : derived[j].layer # derived[i].layer}

\* req.Context().Err() # nil as the layer at depth d sees it: the caller's
\* context is cancelled, or a context derived from it by a timeout layer
\* above has expired or was cancelled
CtxDone(d) ==
    \/ ctxDone
    \/ \E i \in InForce :
          /\ derived[i].layer < d
          /\ derived[i].expired \/ derived[i].released

\* the top frame returns v to its caller
Return(v) ==
    /\ stack' = Front(stack)
    /\ IF Depth = 1
       THEN pc' = "done" /\ result' = v /\ ret' = NoRet
       ELSE pc' = pc /\ result' = result /\ ret' = v

\* the top frame calls the next layer's RoundTrip
CallNext(f) ==
    /\ stack' = Append(SetTop(f), EnterFrame)
    /\ ret' = NoRet
    /\ UNCHANGED <<pc, result>>

\* ------------------------------------------------------------------ the request
\* a request enters the transport with a base transport behaving as one of
\* the scripts of S; the request's context may already be cancelled
Start(S) ==
    /\ pc = "idle"
    /\ \E s \in S, c \in BOOLEAN :
          /\ script' = s
          /\ ctxDone' = c
          /\ cancelAt' = IF c THEN [where |-> "entry", attempt |-> 0] ELSE cancelAt
    /\ pc' = "running"
    /\ stack' = <<EnterFrame>>
    /\ UNCHANGED <<opts, transport, nrebuilds, ret, result, calls, closes, reqTrace, respTrace>>
    /\ UNCHANGED <<timers, derived, bodyRead, elsewhere>>

\* RequestBuilder.Do: rb.client.httpClient.Do(req), over a base transport
\* that answers every invocation alike
Do == Start(SteadyScripts)

\* a direct call of the transport's RoundTrip(req)
Invoke == Start(Scripts)

\* the caller (or a deadline) cancels the request's context
Cancel ==
    /\ pc = "running"
    /\ ~ctxDone
    /\ ctxDone' = TRUE
    /\ cancelAt' = IF TopLayer.kind = "retry" /\ Top.pc = "backoff"
                   THEN [where |-> "backoff", attempt |-> Top.attempt]
                   ELSE [where |-> "running", attempt |-> 0]
    /\ UNCHANGED <<opts, transport, nrebuilds, pc, stack, ret, result, script,
                   calls, closes, reqTrace, respTrace>>
    /\ UNCHANGED <<timers, derived, bodyRead, elsewhere>>

\* middlewareTransport.RoundTrip: return mt.base.RoundTrip(req)
MtRoundTrip ==
    /\ pc = "running" /\ TopLayer.kind = "mt"
    /\ \/ /\ Top.pc = "enter"
          /\ CallNext([Top EXCEPT !.pc = "called"])
       \/ /\ Top.pc = "called" /\ ret.set
          /\ Return(ret)
    /\ UNCHANGED <<opts, transport, nrebuilds, ctxDone, script, calls, closes,
                   reqTrace, respTrace, cancelAt>>
    /\ UNCHANGED <<timers, derived, bodyRead, elsewhere>>

\* a user middleware (README "Custom Middleware"): marks the request, calls
\* next.RoundTrip(req), marks the response, returns resp, err
MwRoundTrip ==
    /\ pc = "running" /\ TopLayer.kind = "mw"
    /\ \/ /\ Top.pc = "enter"
          /\ reqTrace' = Append(reqTrace, TopLayer.name)
          /\ CallNext([Top EXCEPT !.pc = "called"])
          /\ UNCHANGED respTrace
       \/ /\ Top.pc = "called" /\ ret.set
          /\ respTrace' = Append(respTrace, TopLayer.name)
          /\ Return(ret)
          /\ UNCHANGED reqTrace
    /\ UNCHANGED <<opts, transport, nrebuilds, ctxDone, script, calls, closes, cancelAt>>
    /\ UNCHANGED <<timers, derived, bodyRead, elsewhere>>

\* rt.base.RoundTrip(req) on the base transport
BaseRoundTrip ==
    /\ pc = "running" /\ TopLayer.kind = "base"
    /\ Top.pc = "enter"
    /\ calls' = calls + 1
    /\ closes' = Append(closes, 0)
    /\ Return(BaseOutcome(calls + 1))
    /\ UNCHANGED <<opts, transport, nrebuilds, ctxDone, script, reqTrace, respTrace, cancelAt>>
    /\ UNCHANGED <<timers, derived, bodyRead, elsewhere>>

\* faulty variant: the loop never looks at ctx.Err()
RetryAttemptNoCtxCheck ==
    /\ pc = "running" /\ TopLayer.kind = "retry"
    /\ Top.pc = "enter"
    /\ IF Top.attempt > TopLayer.maxRetries
       THEN Return(Ret(Top.resp, Top.err))
       ELSE CallNext([Top EXCEPT !.pc = "called"])
    /\ UNCHANGED <<opts, transport, nrebuilds, ctxDone, script, calls, closes,
                   reqTrace, respTrace, cancelAt>>
    /\ UNCHANGED <<timers, derived, bodyRead, elsewhere>>

\* faulty variant: ctx.Err() is looked at only before a retry, not before the first attempt
RetryAttemptChecksRetriesOnly ==
    /\ pc = "running" /\ TopLayer.kind = "retry"
    /\ Top.pc = "enter"
    /\ IF Top.attempt > TopLayer.maxRetries
       THEN Return(Ret(Top.resp, Top.err))
       ELSE IF CtxDone(Depth) /\ Top.attempt > 0
       THEN Return(Ret(NilResp, CtxErr))
       ELSE CallNext([Top EXCEPT !.pc = "called"])
    /\ UNCHANGED <<opts, transport, nrebuilds, ctxDone, script, calls, closes,
                   reqTrace, respTrace, cancelAt>>
    /\ UNCHANGED <<timers, derived, bodyRead, elsewhere>>

\* retryTransport.RoundTrip, top of the loop: the loop condition, the
\* ctx.Err() check and the call of rt.base.RoundTrip(req)
RetryAttempt ==
    /\ pc = "running" /\ TopLayer.kind = "retry"
    /\ Top.pc = "enter"
    /\ IF Top.attempt > TopLayer.maxRetries
       THEN Return(Ret(Top.resp, Top.err))
       ELSE IF CtxDone(Depth)
       THEN Return(Ret(NilResp, CtxErr))
       ELSE CallNext([Top EXCEPT !.pc = "called"])
    /\ UNCHANGED <<opts, transport, nrebuilds, ctxDone, script, calls, closes,
                   reqTrace, respTrace, cancelAt>>
    /\ UNCHANGED <<timers, derived, bodyRead, elsewhere>>

\* faulty variant: the last attempt is taken to be attempt maxRetries - 1
IsFinalOffByOne(shouldRetry, attempt, maxRetries) ==
    ~shouldRetry \/ attempt + 1 = maxRetries

\* faulty variant: the predicate's answer is ignored
IsFinalIgnoresPredicate(shouldRetry, attempt, maxRetries) ==
    attempt = maxRetries

\* "if !shouldRetry || attempt == rt.maxRetries"
IsFinal(shouldRetry, attempt, maxRetries) ==
    ~shouldRetry \/ attempt = maxRetries

\* faulty variant: an outcome still asking for a retry on the last attempt loses its response
FinalResultDropsRetried(shouldRetry, r) ==
    IF shouldRetry THEN Ret(NilResp, r.err) ELSE Ret(r.resp, r.err)

\* "return resp, err" of the final attempt
FinalResult(shouldRetry, r) == Ret(r.resp, r.err)

\* retryTransport.RoundTrip after the base returned: the predicate and the
\* decision to return or to back off; backing off starts the timer of
\* time.After(backoff)
RetryOutcome ==
    /\ pc = "running" /\ TopLayer.kind = "retry"
    /\ Top.pc = "called" /\ ret.set
    /\ IF IsFinal(RetryIf(TopLayer.retryIf, ret.resp, ret.err), Top.attempt, TopLayer.maxRetries)
       THEN /\ Return(FinalResult(RetryIf(TopLayer.retryIf, ret.resp, ret.err), ret))
            /\ UNCHANGED timers
       ELSE /\ stack' = SetTop(Frame("backoff", Top.attempt, ret.resp, ret.err))
            /\ ret' = NoRet
            /\ timers' = timers + 1
            /\ UNCHANGED <<pc, result>>
    /\ UNCHANGED <<opts, transport, nrebuilds, ctxDone, script, calls, closes,
                   reqTrace, respTrace, cancelAt>>
    /\ UNCHANGED <<derived, bodyRead, elsewhere>>

\* faulty variant: the discarded response's body is left open
CloseBodyNever(c, resp) == c

\* "if resp != nil && resp.Body != nil { resp.Body.Close() }"
CloseBody(c, resp) ==
    IF resp # NilResp THEN [c EXCEPT ![resp.id] = @ + 1] ELSE c

\* the select's timer case: the timer has fired, the discarded response's body
\* is closed and the loop goes to the next attempt
BackoffElapsed ==
    /\ pc = "running" /\ TopLayer.kind = "retry"
    /\ Top.pc = "backoff"
    /\ closes' = CloseBody(closes, Top.resp)
    /\ stack' = SetTop([Top EXCEPT !.pc = "enter", !.attempt = @ + 1])
    /\ timers' = timers - 1
    /\ UNCHANGED <<opts, transport, nrebuilds, pc, ret, result, ctxDone, script, calls,
                   reqTrace, respTrace, cancelAt>>
    /\ UNCHANGED <<derived, bodyRead, elsewhere>>

\* the select's ctx.Done() case: return nil, ctx.Err(); the timer of
\* time.After(backoff) is not stopped
BackoffCancelled ==
    /\ pc = "running" /\ TopLayer.kind = "retry"
    /\ Top.pc = "backoff"
    /\ CtxDone(Depth)
    /\ Return(Ret(NilResp, CtxErr))
    /\ UNCHANGED <<opts, transport, nrebuilds, ctxDone, script, calls, closes,
                   reqTrace, respTrace, cancelAt>>
    /\ UNCHANGED <<timers, derived, bodyRead, elsewhere>>

\* the wait in progress, if any, of the retry layer the request is in
InBackoff == pc = "running" /\ TopLayer.kind = "retry" /\ Top.pc = "backoff"

\* a timer of time.After(backoff) that no select waits for any more fires
TimerFires ==
    /\ timers > 0
    /\ ~InBackoff
    /\ timers' = timers - 1
    /\ UNCHANGED <<opts, transport, nrebuilds, pc, stack, ret, result, ctxDone, script,
                   calls, closes, reqTrace, respTrace, cancelAt>>
    /\ UNCHANGED <<derived, bodyRead, elsewhere>>

\* ------------------------------------------------------------------ the client
\* Options.Middlewares after New(WithMiddleware(...)) with n middlewares
Declared(n) == [i \in 1..n |-> i]

\* New(options...): defaultOptions, the options applied, the chain built
\* over the base transport
Init ==
    /\ \E n \in 0..MaxRetriesBound, f \in {"nil"} \cup UserRetryIfs, m \in 0..MaxInitMws :
          /\ opts = [MaxRetries |-> n, RetryIf |-> f, Middlewares |-> Declared(m)]
          /\ transport = buildMiddlewareChain(<<>>, opts)
    /\ nrebuilds = 0
    /\ FreshRequest
    /\ Untouched

\* Client.WithRetry
ClientWithRetry ==
    /\ pc = "idle"
    /\ \E n \in 0..MaxRetriesBound : opts' = [opts EXCEPT !.MaxRetries = n]
    /\ UNCHANGED <<transport, nrebuilds, pc, stack, ret, result, ctxDone, script,
                   calls, closes, reqTrace, respTrace, cancelAt>>
    /\ UNCHANGED <<timers, derived, bodyRead, elsewhere>>

\* Client.WithRetryIf
ClientWithRetryIf ==
    /\ pc = "idle"
    /\ \E f \in UserRetryIfs : opts' = [opts EXCEPT !.RetryIf = f]
    /\ UNCHANGED <<transport, nrebuilds, pc, stack, ret, result, ctxDone, script,
                   calls, closes, reqTrace, respTrace, cancelAt>>
    /\ UNCHANGED <<timers, derived, bodyRead, elsewhere>>

\* Client.WithMiddleware(mw): append, then rebuild the chain over the
\* base of the current middlewareTransport
ClientWithMiddleware ==
    /\ pc = "idle"
    /\ nrebuilds < MaxRebuilds
    /\ nrebuilds' = nrebuilds + 1
    /\ opts' = [opts EXCEPT !.Middlewares = Append(@, Len(@) + 1)]
    /\ transport' = buildMiddlewareChain(MtBase(transport), opts')
    /\ UNCHANGED <<pc, stack, ret, result, ctxDone, script,
                   calls, closes, reqTrace, respTrace, cancelAt>>
    /\ UNCHANGED <<timers, derived, bodyRead, elsewhere>>

Next ==
    \/ ClientWithRetry
    \/ ClientWithRetryIf
    \/ ClientWithMiddleware
    \/ Do
    \/ Cancel
    \/ MtRoundTrip
    \/ MwRoundTrip
    \/ BaseRoundTrip
    \/ RetryAttempt
    \/ RetryOutcome
    \/ BackoffElapsed
    \/ BackoffCancelled
    \/ TimerFires

Spec == Init /\ [][Next]_vars

\* ------------------------------------------------------------------ the composite transport alone
\* The transport of a client as New built it, called directly, with no
\* later change of the client.
NextChain ==
    \/ Invoke
    \/ Cancel
    \/ MtRoundTrip
    \/ MwRoundTrip
    \/ BaseRoundTrip
    \/ RetryAttempt
    \/ RetryOutcome
    \/ BackoffElapsed
    \/ BackoffCancelled
    \/ TimerFires

SpecChain == Init /\ [][NextChain]_vars

\* ------------------------------------------------------------------ the retry executor alone
\* A retryTransport constructed directly over the base transport.
RetryIfs == {"default"} \cup UserRetryIfs

InitRetry ==
    /\ \E n \in 0..MaxRetriesBound, f \in RetryIfs :
          /\ opts = [MaxRetries |-> n, RetryIf |-> f, Middlewares |-> <<>>]
          /\ transport = <<RetryLayer(n, f)>>
    /\ nrebuilds = 0
    /\ FreshRequest
    /\ Untouched

NextRetry ==
    \/ Invoke
    \/ Cancel
    \/ BaseRoundTrip
    \/ RetryAttempt
    \/ RetryOutcome
    \/ BackoffElapsed
    \/ BackoffCancelled
    \/ TimerFires

SpecRetry == InitRetry /\ [][NextRetry]_vars

\* ------------------------------------------------------------------ the timeout middleware
\* faulty variant: the derived context is never cancelled
DeferredCancelSkipped(ds, d, r) == ds

\* faulty variant: the derived context is cancelled only when an error is returned
DeferredCancelOnErrorOnly(ds, d, r) ==
    IF r.err # NilErr
    THEN [i \in 1..Len(ds) |->
            IF i \in InForce /\ ds[i].layer = d THEN [ds[i] EXCEPT !.released = TRUE] ELSE ds[i]]
    ELSE ds

\* "defer cancel()": whatever r is being returned, the context the layer at
\* depth d made is cancelled
DeferredCancel(ds, d, r) ==
    [i \in 1..Len(ds) |->
        IF i \in InForce /\ ds[i].layer = d THEN [ds[i] EXCEPT !.released = TRUE] ELSE ds[i]]

\* TimeoutMiddleware's RoundTripFunc: context.WithTimeout(req.Context(),
\* timeout), next.RoundTrip(req.WithContext(ctx)), and cancel() on return
TimeoutRoundTrip ==
    /\ pc = "running" /\ TopLayer.kind = "timeout"
    /\ \/ /\ Top.pc = "enter"
          /\ derived' = Append(derived, Derived(Depth))
          /\ CallNext([Top EXCEPT !.pc = "called"])
       \/ /\ Top.pc = "called" /\ ret.set
          /\ derived' = DeferredCancel(derived, Depth, ret)
          /\ Return(ret)
    /\ UNCHANGED <<opts, transport, nrebuilds, ctxDone, script, calls, closes,
                   reqTrace, respTrace, cancelAt>>
    /\ UNCHANGED <<timers, bodyRead, elsewhere>>

\* the deadline of a derived context passes before the context is cancelled
TimeoutExpires ==
    /\ pc = "running"
    /\ \E i \in InForce :
          /\ ~derived[i].expired /\ ~derived[i].released
          /\ ~CtxDone(derived[i].layer)
          /\ derived' = [derived EXCEPT ![i].expired = TRUE]
    /\ UNCHANGED <<opts, transport, nrebuilds, pc, stack, ret, result, ctxDone, script,
                   calls, closes, reqTrace, respTrace, cancelAt>>
    /\ UNCHANGED <<timers, bodyRead, elsewhere>>

\* ResponseHandler.Into / Bytes with rh.err == nil: the body of the
\* returned response is read; the read meets the context of the request
\* the base transport was given either cancelled or live
ReadBody ==
    /\ pc = "done"
    /\ result.err = NilErr
    /\ bodyRead = "none"
    /\ bodyRead' = IF CtxDone(Len(transport) + 1) THEN "cancelled" ELSE "live"
    /\ UNCHANGED <<opts, transport, nrebuilds, pc, stack, ret, result, ctxDone, script,
                   calls, closes, reqTrace, respTrace, cancelAt>>
    /\ UNCHANGED <<timers, derived, elsewhere>>

\* Options.Middlewares with m marker middlewares and TimeoutMiddleware
\* declared at position j
DeclaredWithTimeout(m, j) ==
    [i \in 1..(m + 1) |-> IF i < j THEN i ELSE IF i = j THEN TimeoutMw ELSE i - 1]

\* New(WithRetry(n, ...), WithMiddleware(..., TimeoutMiddleware(timeout), ...))
InitTimeout ==
    /\ \E n \in 0..MaxRetriesBound, m \in 0..MaxInitMws :
          \E j \in 1..(m + 1) :
             /\ opts = [MaxRetries |-> n, RetryIf |-> "nil", Middlewares |-> DeclaredWithTimeout(m, j)]
             /\ transport = buildMiddlewareChain(<<>>, opts)
    /\ nrebuilds = 0
    /\ FreshRequest
    /\ Untouched

NextTimeout ==
    \/ Do
    \/ Cancel
    \/ MtRoundTrip
    \/ MwRoundTrip
    \/ TimeoutRoundTrip
    \/ TimeoutExpires
    \/ BaseRoundTrip
    \/ RetryAttempt
    \/ RetryOutcome
    \/ BackoffElapsed
    \/ BackoffCancelled
    \/ TimerFires
    \/ ReadBody

SpecTimeout == InitTimeout /\ [][NextTimeout]_vars

\* the retryTransport when the transport is one retryTransport over the base
Executor == transport[1]

\* ------------------------------------------------------------------ concurrent calls of one retryTransport
\* Several goroutines call RoundTrip of the same retryTransport, each with
\* its own request and context.  The transport's fields are only read; ctx,
\* resp, err and attempt are locals of each call.
CallIds == {"a", "b"}

IdleCall == [pc |-> "idle", attempt |-> 0, resp |-> NilResp, err |-> NilErr,
             ctxDone |-> FALSE, script |-> <<>>, calls |-> 0, result |-> NoRet]

\* faulty variant: the calls look at one context shared between them
CallCtxDoneShared(cs, c) == \E d \in DOMAIN cs : cs[d].ctxDone

\* "ctx := req.Context()" ... ctx.Err() != nil / <-ctx.Done() in call c
CallCtxDone(cs, c) == cs[c].ctxDone

InitConc ==
    /\ \E n \in 0..MaxRetriesBound, f \in RetryIfs :
          /\ opts = [MaxRetries |-> n, RetryIf |-> f, Middlewares |-> <<>>]
          /\ transport = <<RetryLayer(n, f)>>
    /\ nrebuilds = 0
    /\ FreshRequest
    /\ defaultClient = NoClient
    /\ defaultClientOnce = FALSE
    /\ shortcuts = <<>>
    /\ fin = NoValue
    /\ fout = NoValue
    /\ inflight = [c \in CallIds |-> IdleCall]

Others == <<defaultClient, defaultClientOnce, shortcuts, fin, fout, pipeline>>

\* call c enters RoundTrip; its context may already be cancelled
ConcStart(c) ==
    /\ inflight[c].pc = "idle"
    /\ \E sc \in SteadyScripts, done \in BOOLEAN :
          inflight' = [inflight EXCEPT ![c].pc = "enter", ![c].script = sc, ![c].ctxDone = done]
    /\ UNCHANGED Others

\* the context of call c is cancelled
ConcCancel(c) ==
    /\ inflight[c].pc \in {"enter", "called", "backoff"}
    /\ ~inflight[c].ctxDone
    /\ inflight' = [inflight EXCEPT ![c].ctxDone = TRUE]
    /\ UNCHANGED Others

\* call c at the top of the loop: the loop condition, the ctx.Err() check,
\* and rt.base.RoundTrip(req)
ConcAttempt(c) ==
    /\ inflight[c].pc = "enter"
    /\ inflight' =
          IF inflight[c].attempt > Executor.maxRetries
          THEN [inflight EXCEPT ![c].pc = "done",
                                ![c].result = Ret(inflight[c].resp, inflight[c].err)]
          ELSE IF CallCtxDone(inflight, c)
          THEN [inflight EXCEPT ![c].pc = "done", ![c].result = Ret(NilResp, CtxErr)]
          ELSE LET r == ScriptOutcome(inflight[c].script, inflight[c].calls + 1)
               IN [inflight EXCEPT ![c].pc = "called", ![c].calls = @ + 1,
                                   ![c].resp = r.resp, ![c].err = r.err]
    /\ UNCHANGED Others

\* call c after the base returned: the predicate and the decision to return
\* or to back off
ConcOutcome(c) ==
    /\ inflight[c].pc = "called"
    /\ LET k == inflight[c]
           shouldRetry == RetryIf(Executor.retryIf, k.resp, k.err)
       IN inflight' =
             IF IsFinal(shouldRetry, k.attempt, Executor.maxRetries)
             THEN [inflight EXCEPT ![c].pc = "done",
                                   ![c].result = FinalResult(shouldRetry, Ret(k.resp, k.err))]
             ELSE [inflight EXCEPT ![c].pc = "backoff"]
    /\ UNCHANGED Others

\* the select of call c takes the timer case
ConcBackoffElapsed(c) ==
    /\ inflight[c].pc = "backoff"
    /\ inflight' = [inflight EXCEPT ![c].pc = "enter", ![c].attempt = @ + 1]
    /\ UNCHANGED Others

\* the select of call c takes the ctx.Done() case
ConcBackoffCancelled(c) ==
    /\ inflight[c].pc = "backoff"
    /\ CallCtxDone(inflight, c)
    /\ inflight' = [inflight EXCEPT ![c].pc = "done", ![c].result = Ret(NilResp, CtxErr)]
    /\ UNCHANGED Others

NextConc ==
    \E c \in CallIds :
        \/ ConcStart(c)
        \/ ConcCancel(c)
        \/ ConcAttempt(c)
        \/ ConcOutcome(c)
        \/ ConcBackoffElapsed(c)
        \/ ConcBackoffCancelled(c)

SpecConc == InitConc /\ [][NextConc]_vars

\* ------------------------------------------------------------------ the global default client
\* Clients the program passes to SetDefault; "lazy" is the client that
\* getDefaultClient creates with New().
CustomClients == {"c1", "c2"}
LazyClient == "lazy"
GlobalShortcuts == {"GetJSON", "PostJSON"}

\* defaultOptions(): the options of New() with no option applied
defaultOptions == [MaxRetries |-> 0, RetryIf |-> "nil", Middlewares |-> <<>>]

\* the client and request state of a run that makes no request
Parked ==
    /\ opts = defaultOptions
    /\ transport = buildMiddlewareChain(<<>>, defaultOptions)
    /\ nrebuilds = 0
    /\ FreshRequest

InitDefault ==
    /\ Parked
    /\ defaultClient = NoClient
    /\ defaultClientOnce = FALSE
    /\ shortcuts = <<>>
    /\ fin = NoValue
    /\ fout = NoValue
    /\ inflight = <<>>

\* SetDefault(client): defaultClient = client
SetDefault ==
    /\ Len(shortcuts) < MaxGlobalCalls
    /\ \E c \in CustomClients :
          /\ defaultClient' = c
          /\ shortcuts' = Append(shortcuts, [op |-> "SetDefault", client |-> c, created |-> FALSE])
    /\ UNCHANGED <<defaultClientOnce, fin, fout, inflight, pipeline>>

\* the client getDefaultClient() returns: defaultClientOnce.Do runs
\* "defaultClient = New()" the first time, whatever defaultClient holds
getDefaultClient(once, current) == IF once THEN current ELSE LazyClient

\* GetJSON / PostJSON: getDefaultClient().GetJSON(...)
GlobalShortcut ==
    /\ Len(shortcuts) < MaxGlobalCalls
    /\ defaultClient' = getDefaultClient(defaultClientOnce, defaultClient)
    /\ defaultClientOnce' = TRUE
    /\ \E f \in GlobalShortcuts :
          shortcuts' = Append(shortcuts, [op |-> f, client |-> defaultClient',
                                          created |-> ~defaultClientOnce])
    /\ UNCHANGED <<fin, fout, inflight, pipeline>>

NextDefault ==
    \/ SetDefault
    \/ GlobalShortcut

SpecDefault == InitDefault /\ [][NextDefault]_vars

\* ------------------------------------------------------------------ DefaultRetryIf as a function
Statuses == 100..599
PredicateResps == {NilResp} \cup {[id |-> 1, status |-> st] : st \in Statuses}
PredicateErrs == {NilErr, CtxErr, TransportErr(1)}

InitPredicate ==
    /\ Parked
    /\ defaultClient = NoClient
    /\ defaultClientOnce = FALSE
    /\ shortcuts = <<>>
    /\ \E resp \in PredicateResps, err \in PredicateErrs :
          fin = [set |-> TRUE, resp |-> resp, err |-> err]
    /\ fout = NoValue
    /\ inflight = <<>>

\* a call DefaultRetryIf(resp, err)
CallDefaultRetryIf ==
    /\ ~fout.set
    /\ fout' = [set |-> TRUE, value |-> DefaultRetryIf(fin.resp, fin.err)]
    /\ UNCHANGED <<fin, defaultClient, defaultClientOnce, shortcuts, inflight, pipeline>>

NextPredicate == CallDefaultRetryIf

SpecPredicate == InitPredicate /\ [][NextPredicate]_vars

\* ------------------------------------------------------------------ calculateBackoff as a function
\* math.Pow(2, float64(attempt))
RECURSIVE Pow2(_)
Pow2(n) == IF n = 0 THEN 1 ELSE 2 * Pow2(n - 1)

\* faulty variant: the exponential backoff is not capped at maxBackoff
BackoffBaseUncapped(minBackoff, maxBackoff, attempt) == minBackoff * Pow2(attempt)

\* calculateBackoff before the jitter: minBackoff * 2^attempt, capped at maxBackoff
BackoffBase(minBackoff, maxBackoff, attempt) ==
    LET backoff == minBackoff * Pow2(attempt)
    IN  IF backoff > maxBackoff THEN maxBackoff ELSE backoff

\* calculateBackoff, durations in nanoseconds; k / JitterSteps is the draw of
\* rand.Float64() in [0, 1).  backoff + backoff * 0.25 * (rand * 2 - 1) is
\* backoff * (3 * JitterSteps + 2 * k) / (4 * JitterSteps), and
\* time.Duration(backoff) drops the fraction of a nanosecond.
calculateBackoff(minBackoff, maxBackoff, attempt, k) ==
    LET backoff == BackoffBase(minBackoff, maxBackoff, attempt)
    IN  (backoff * (3 * JitterSteps + 2 * k)) \div (4 * JitterSteps)

\* minBackoff and maxBackoff in nanoseconds; 100 and 200 stand for the
\* documented 100ms / 200ms pair
Durations == (0..MaxDurationNs) \cup {100, 200}

InitBackoff ==
    /\ Parked
    /\ defaultClient = NoClient
    /\ defaultClientOnce = FALSE
    /\ shortcuts = <<>>
    /\ \E lo \in Durations, hi \in Durations, i \in 0..MaxAttemptIndex, k \in 0..(JitterSteps - 1) :
          /\ lo <= hi
          /\ fin = [set |-> TRUE, minBackoff |-> lo, maxBackoff |-> hi, attempt |-> i, rand |-> k]
    /\ fout = NoValue
    /\ inflight = <<>>

\* a call rt.calculateBackoff(attempt)
CallCalculateBackoff ==
    /\ ~fout.set
    /\ fout' = [set |-> TRUE,
                base |-> BackoffBase(fin.minBackoff, fin.maxBackoff, fin.attempt),
                value |-> calculateBackoff(fin.minBackoff, fin.maxBackoff, fin.attempt, fin.rand)]
    /\ UNCHANGED <<fin, defaultClient, defaultClientOnce, shortcuts, inflight, pipeline>>

NextBackoff == CallCalculateBackoff

SpecBackoff == InitBackoff /\ [][NextBackoff]_vars

\* ------------------------------------------------------------------ the built-in interceptors
\* faulty variant: after logging the outcome the interceptor closes the response's body
LoggingRoundTripClosesBody ==
    /\ pc = "running" /\ TopLayer.kind = "logging"
    /\ \/ /\ Top.pc = "enter"
          /\ reqTrace' = Append(reqTrace, TopLayer.name)
          /\ CallNext([Top EXCEPT !.pc = "called"])
          /\ UNCHANGED <<respTrace, closes>>
       \/ /\ Top.pc = "called" /\ ret.set
          /\ respTrace' = Append(respTrace, TopLayer.name)
          /\ closes' = CloseBody(closes, ret.resp)
          /\ Return(ret)
          /\ UNCHANGED reqTrace
    /\ UNCHANGED <<opts, transport, nrebuilds, ctxDone, script, calls, cancelAt>>
    /\ UNCHANGED <<timers, derived, bodyRead, elsewhere>>

\* LoggingMiddleware's RoundTripFunc: the "-->" line, next.RoundTrip(req),
\* the "<--" line with the error or resp.StatusCode, return resp, err
LoggingRoundTrip ==
    /\ pc = "running" /\ TopLayer.kind = "logging"
    /\ \/ /\ Top.pc = "enter"
          /\ reqTrace' = Append(reqTrace, TopLayer.name)
          /\ CallNext([Top EXCEPT !.pc = "called"])
          /\ UNCHANGED respTrace
       \/ /\ Top.pc = "called" /\ ret.set
          /\ respTrace' = Append(respTrace, TopLayer.name)
          /\ Return(ret)
          /\ UNCHANGED reqTrace
    /\ UNCHANGED <<opts, transport, nrebuilds, ctxDone, script, calls, closes, cancelAt>>
    /\ UNCHANGED <<timers, derived, bodyRead, elsewhere>>

\* MetricsMiddleware's RoundTripFunc: next.RoundTrip(req), the status label
\* from resp.StatusCode or "error", return resp, err
MetricsRoundTrip ==
    /\ pc = "running" /\ TopLayer.kind = "metrics"
    /\ \/ /\ Top.pc = "enter"
          /\ reqTrace' = Append(reqTrace, TopLayer.name)
          /\ CallNext([Top EXCEPT !.pc = "called"])
          /\ UNCHANGED respTrace
       \/ /\ Top.pc = "called" /\ ret.set
          /\ respTrace' = Append(respTrace, TopLayer.name)
          /\ Return(ret)
          /\ UNCHANGED reqTrace
    /\ UNCHANGED <<opts, transport, nrebuilds, ctxDone, script, calls, closes, cancelAt>>
    /\ UNCHANGED <<timers, derived, bodyRead, elsewhere>>

\* Options.Middlewares made of the built-in interceptors
BuiltinChains ==
    {<<LoggingMw>>, <<MetricsMw>>, <<LoggingMw, MetricsMw>>, <<MetricsMw, LoggingMw>>}

\* New(WithRetry(n, ...), WithMiddleware(LoggingMiddleware(), MetricsMiddleware(name)))
InitBuiltins ==
    /\ \E n \in 0..MaxRetriesBound, mws \in BuiltinChains :
          /\ opts = [MaxRetries |-> n, RetryIf |-> "nil", Middlewares |-> mws]
          /\ transport = buildMiddlewareChain(<<>>, opts)
    /\ nrebuilds = 0
    /\ FreshRequest
    /\ Untouched

NextBuiltins ==
    \/ Invoke
    \/ Cancel
    \/ MtRoundTrip
    \/ LoggingRoundTrip
    \/ MetricsRoundTrip
    \/ BaseRoundTrip
    \/ RetryAttempt
    \/ RetryOutcome
    \/ BackoffElapsed
    \/ BackoffCancelled
    \/ TimerFires

SpecBuiltins == InitBuiltins /\ [][NextBuiltins]_vars

\* ------------------------------------------------------------------ ResponseHandler
\* what Into / Bytes return: nil, rh.err itself, an *HTTPError with the
\* status code, the wrapped JSON decoding error, or io.ReadAll's error
NilReturn == [kind |-> "nil", status |-> 0, err |-> NilErr]
HandlerErr(err) == [kind |-> "rh.err", status |-> 0, err |-> err]
HTTPError(code) == [kind |-> "HTTPError", status |-> code, err |-> NilErr]
DecodeErr == [kind |-> "decode", status |-> 0, err |-> NilErr]
ReadErr == [kind |-> "read", status |-> 0, err |-> NilErr]

\* the effect of a call on the handler's response: the number of
\* Body.Close() calls, the number of reads of the body, the value returned
Handled(nclose, nread, r) == [set |-> TRUE, closes |-> nclose, reads |-> nread, ret |-> r]

\* faulty variant: 300 is not taken for an error status
IntoAbove300(rh, ok) ==
    IF rh.err # NilErr THEN Handled(0, 0, HandlerErr(rh.err))
    ELSE IF rh.resp.status < 200 \/ rh.resp.status > 300
    THEN Handled(1, 1, HTTPError(rh.resp.status))
    ELSE IF ~ok THEN Handled(1, 1, DecodeErr)
    ELSE Handled(1, 1, NilReturn)

\* ResponseHandler.Into; ok: the body decodes as JSON into v.  The deferred
\* rh.resp.Body.Close() runs once on each return after the rh.err check.
Into(rh, ok) ==
    IF rh.err # NilErr THEN Handled(0, 0, HandlerErr(rh.err))
    ELSE IF rh.resp.status < 200 \/ rh.resp.status >= 300
    THEN Handled(1, 1, HTTPError(rh.resp.status))
    ELSE IF ~ok THEN Handled(1, 1, DecodeErr)
    ELSE Handled(1, 1, NilReturn)

\* ResponseHandler.Bytes; ok: io.ReadAll reads the body without error
Bytes(rh, ok) ==
    IF rh.err # NilErr THEN Handled(0, 0, HandlerErr(rh.err))
    ELSE IF rh.resp.status < 200 \/ rh.resp.status >= 300
    THEN Handled(1, 1, HTTPError(rh.resp.status))
    ELSE IF ~ok THEN Handled(1, 1, ReadErr)
    ELSE Handled(1, 1, NilReturn)

\* the handlers RequestBuilder.Do makes: the error of creating the request
\* or of httpClient.Do with no response, or a response with no error
Handlers ==
    {[set |-> TRUE, resp |-> NilResp, err |-> e] : e \in {CtxErr, TransportErr(1)}}
        \cup {[set |-> TRUE, resp |-> [id |-> 1, status |-> st], err |-> NilErr] : st \in Statuses}

InitHandler ==
    /\ Parked
    /\ defaultClient = NoClient
    /\ defaultClientOnce = FALSE
    /\ shortcuts = <<>>
    /\ fin \in Handlers
    /\ fout = NoValue
    /\ inflight = <<>>

\* a call rh.Into(v)
CallInto ==
    /\ ~fout.set
    /\ \E ok \in BOOLEAN : fout' = [Into(fin, ok) EXCEPT !.set = TRUE]
    /\ UNCHANGED <<fin, defaultClient, defaultClientOnce, shortcuts, inflight, pipeline>>

\* a call rh.Bytes()
CallBytes ==
    /\ ~fout.set
    /\ \E ok \in BOOLEAN : fout' = [Bytes(fin, ok) EXCEPT !.set = TRUE]
    /\ UNCHANGED <<fin, defaultClient, defaultClientOnce, shortcuts, inflight, pipeline>>

NextHandler ==
    \/ CallInto
    \/ CallBytes

SpecHandler == InitHandler /\ [][NextHandler]_vars

\* ------------------------------------------------------------------ claims: the retry executor
\* the script's answer to invocation i is a transport error
Fails(i) == BaseOutcome(i).err # NilErr

\* the executor's predicate asks for a retry of the answer to invocation i
Eligible(i) == RetryIf(Executor.retryIf, BaseOutcome(i).resp, BaseOutcome(i).err)

CancelResult == Ret(NilResp, CtxErr)

\* C1: with maxRetries = N >= 1, a predicate that is always true, a base
\* transport that fails every invocation and a context never cancelled, the
\* call makes exactly N+1 invocations and returns the error of the last one.
C1_AllFailExhausts ==
    (/\ pc = "done" /\ ~ctxDone
     /\ Executor.maxRetries >= 1
     /\ Executor.retryIf = "always"
     /\ \A i \in 1..ScriptLen : script[i].fails)
    => /\ calls = Executor.maxRetries + 1
       /\ result = Ret(NilResp, TransportErr(Executor.maxRetries + 1))

C1_Witness ==
    /\ pc = "done" /\ ~ctxDone
    /\ Executor.maxRetries = MaxRetriesBound
    /\ Executor.retryIf = "always"
    /\ \A i \in 1..ScriptLen : script[i].fails
    /\ calls = MaxRetriesBound + 1

\* C2: when the call has returned, every response the executor received is
\* either the one returned (never closed by the executor) or has been
\* closed exactly once.
C2_EveryDiscardedBodyClosedOnce ==
    pc = "done" =>
        \A i \in 1..calls :
            ~Fails(i) =>
                IF result.resp.id = i THEN closes[i] = 0 ELSE closes[i] = 1

\* C3: a cancellation during the backoff wait after attempt k ends the call
\* with the cancellation error and no response, after exactly k+1
\* invocations, and no invocation follows.
C3_CancelDuringBackoff ==
    cancelAt.where = "backoff" =>
        /\ calls = cancelAt.attempt + 1
        /\ cancelAt.attempt < Executor.maxRetries
        /\ pc = "done" => result = CancelResult

C3_Witness ==
    /\ pc = "done"
    /\ cancelAt.where = "backoff"
    /\ cancelAt.attempt = 1
    /\ result = CancelResult

\* C4: a context already cancelled at entry gives zero invocations and
\* (nil, ctx.Err()).
C4_CancelledAtEntry ==
    cancelAt.where = "entry" =>
        /\ calls = 0
        /\ pc = "done" => result = CancelResult

C4_Witness ==
    /\ pc = "done"
    /\ cancelAt.where = "entry"
    /\ Executor.maxRetries > 0

\* the base answers its first k invocations with retry-eligible responses
\* and invocation k+1 with a response that is not
EligibleThenNot(k) ==
    /\ \A i \in 1..k : ~Fails(i) /\ Eligible(i)
    /\ ~Fails(k + 1) /\ ~Eligible(k + 1)

\* C5: k retry-eligible responses (k <= maxRetries) and then one that is not,
\* no cancellation: k+1 invocations, the (k+1)-th response is returned, and
\* each earlier body was closed before the next invocation was issued.
C5_RetriesThenReturns ==
    \A k \in 0..Executor.maxRetries :
        (pc # "idle" /\ EligibleThenNot(k)) =>
            /\ \A i \in 1..(calls - 1) : closes[i] = 1
            /\ (pc = "done" /\ ~ctxDone) =>
                  /\ calls = k + 1
                  /\ result = BaseOutcome(k + 1)
                  /\ closes[k + 1] = 0

C5_Witness ==
    /\ pc = "done" /\ ~ctxDone
    /\ Executor.maxRetries = 2
    /\ Executor.retryIf = "default"
    /\ EligibleThenNot(2)
    /\ calls = 3
    /\ result.resp = [id |-> 3, status |-> 200]

\* C6 as stated: without cancellation the call always makes exactly
\* maxRetries + 1 invocations, whatever the predicate returns.
C6_AlwaysAllAttempts ==
    (pc = "done" /\ ~ctxDone) => calls = Executor.maxRetries + 1

\* the first invocation whose answer the predicate does not ask to retry,
\* or maxRetries + 1 when it asks to retry each of the first maxRetries
FirstFinal ==
    LET stops == {i \in 1..Executor.maxRetries : ~Eligible(i)}
    IN IF stops = {} THEN Executor.maxRetries + 1
       ELSE CHOOSE i \in stops : \A j \in stops : i <= j

\* C6 amended: without cancellation the call makes between 1 and
\* maxRetries + 1 invocations: it stops at the first invocation whose
\* outcome the predicate rejects, and makes maxRetries + 1 when the
\* predicate accepts each of the first maxRetries outcomes.
C6_AttemptsUntilRejected ==
    /\ calls <= Executor.maxRetries + 1
    /\ (pc = "done" /\ ~ctxDone) => calls = FirstFinal

C6_Witness ==
    /\ pc = "done" /\ ~ctxDone
    /\ Executor.maxRetries = 2
    /\ calls = 2
    /\ FirstFinal = 2

\* C7: a call that returns other than by observing cancellation returns
\* exactly the (response, error) of its last invocation: a retry-eligible
\* status on the last allowed attempt comes back as a response with a nil
\* error, a transport error comes back unchanged.
C7_LastOutcomeVerbatim ==
    (pc = "done" /\ result # CancelResult) =>
        /\ calls >= 1
        /\ result = BaseOutcome(calls)

C7_Witness ==
    /\ pc = "done"
    /\ calls = Executor.maxRetries + 1
    /\ Executor.maxRetries >= 1
    /\ Eligible(calls)
    /\ result.resp.status = 503
    /\ result.err = NilErr

\* ------------------------------------------------------------------ claims: the chain and the client
RECURSIVE Reverse(_)
Reverse(q) == IF q = <<>> THEN <<>> ELSE Append(Reverse(Tail(q)), Head(q))

IsPrefix(p, q) == Len(p) <= Len(q) /\ SubSeq(q, 1, Len(p)) = p

\* the request is below every middleware: in the retry layer or the base transport
BelowMiddlewares == pc = "running" /\ TopLayer.kind \in {"retry", "base"}

\* C8: through a chain built by buildMiddlewareChain for [M1, ..., Mn] the
\* request passes M1 first and Mn last, reaches the retry layer and the
\* base transport only after Mn, and the response passes Mn first and M1 last.
C8_DeclaredOrder ==
    /\ IsPrefix(reqTrace, opts.Middlewares)
    /\ IsPrefix(respTrace, Reverse(opts.Middlewares))
    /\ BelowMiddlewares => reqTrace = opts.Middlewares /\ respTrace = <<>>
    /\ calls > 0 => reqTrace = opts.Middlewares
    /\ pc = "done" => /\ reqTrace = opts.Middlewares
                      /\ respTrace = Reverse(opts.Middlewares)

C8_Witness ==
    /\ pc = "done"
    /\ calls > 0
    /\ Len(opts.Middlewares) = 2
    /\ reqTrace = <<1, 2>>
    /\ respTrace = <<2, 1>>

\* the number of retry layers of a chain
RetryLayers(t) == Cardinality({i \in 1..Len(t) : t[i].kind = "retry"})

\* C9: after Client.WithMiddleware the transport is a fresh build over the
\* original base transport: every middleware declared runs exactly once per
\* request, in declaration order, over at most one retry layer.
C9_RebuildIsFreshBuild ==
    nrebuilds > 0 =>
        /\ RetryLayers(transport) <= 1
        /\ pc = "done" => reqTrace = opts.Middlewares

\* C10: after Client.WithRetry(n), n > 0, on a client returned by New(), a
\* request whose every outcome is retry-eligible for the predicate set by
\* WithRetryIf (the default one if none was set) invokes the base transport
\* n+1 times.
C10_WithRetryRetries ==
    (/\ pc = "done" /\ ~ctxDone
     /\ transport = <<MtLayer>>
     /\ opts.MaxRetries > 0
     /\ \A i \in 1..ScriptLen :
           RetryIf(retryIfOf(opts), BaseOutcome(i).resp, BaseOutcome(i).err))
    => calls = opts.MaxRetries + 1

\* ------------------------------------------------------------------ claims: the global default client
\* the positions of the SetDefault calls made before call i
SetsBefore(i) == {j \in 1..(i - 1) : shortcuts[j].op = "SetDefault"}

\* the client the most recent SetDefault before call i installed, or the
\* lazily created client when there was none
ExpectedClient(i) ==
    IF SetsBefore(i) = {} THEN LazyClient
    ELSE shortcuts[CHOOSE j \in SetsBefore(i) : \A k \in SetsBefore(i) : k <= j].client

\* C11: every global shortcut call executes on the client of the most recent
\* preceding SetDefault, also when SetDefault precedes the first shortcut
\* call; with no SetDefault it executes on the lazily created client, which
\* is created at most once.
C11_ShortcutUsesLatestDefault ==
    /\ \A i \in 1..Len(shortcuts) :
          shortcuts[i].op \in GlobalShortcuts => shortcuts[i].client = ExpectedClient(i)
    /\ Cardinality({i \in 1..Len(shortcuts) : shortcuts[i].created}) <= 1

\* ------------------------------------------------------------------ claims: the default predicate
\* C12: DefaultRetryIf is true whenever the error is non-nil, true for a nil
\* error with status >= 500 or status = 429, and false for every other
\* nil-error outcome, a nil response included.
C12_DefaultPredicate ==
    fout.set =>
        /\ fin.err # NilErr => fout.value
        /\ (fin.err = NilErr /\ fin.resp # NilResp
              /\ (fin.resp.status >= 500 \/ fin.resp.status = 429)) => fout.value
        /\ (fin.err = NilErr /\ fin.resp # NilResp
              /\ fin.resp.status < 500 /\ fin.resp.status # 429) => ~fout.value
        /\ (fin.err = NilErr /\ fin.resp = NilResp) => ~fout.value

\* a rate-limited response without error was judged retry-eligible
C12_Witness ==
    /\ fout.set
    /\ fin.err = NilErr
    /\ fin.resp # NilResp
    /\ fin.resp.status = 429
    /\ fout.value

\* ------------------------------------------------------------------ claims: the backoff
MinOf(a, b) == IF a <= b THEN a ELSE b

\* the part of C13 about the pre-jitter base: it is min(minBackoff * 2^i,
\* maxBackoff), non-decreasing in i and never above maxBackoff
BaseSaturates ==
    /\ fout.base = MinOf(fin.minBackoff * Pow2(fin.attempt), fin.maxBackoff)
    /\ fout.base <= BackoffBase(fin.minBackoff, fin.maxBackoff, fin.attempt + 1)
    /\ BackoffBase(fin.minBackoff, fin.maxBackoff, fin.attempt + 1) <= fin.maxBackoff
    /\ (fin.minBackoff > 0 /\ fin.minBackoff * Pow2(fin.attempt) >= fin.maxBackoff)
          => fout.base = fin.maxBackoff

\* C13 as stated: the base is min(minBackoff * 2^i, maxBackoff), and the
\* returned wait is non-negative and lies in [0.75 * base, 1.25 * base].
C13_JitterBand ==
    fout.set =>
        /\ BaseSaturates
        /\ fout.value >= 0
        /\ 4 * fout.value >= 3 * fout.base
        /\ 4 * fout.value <= 5 * fout.base

\* C13 amended: the base is min(minBackoff * 2^i, maxBackoff), and the
\* returned wait is non-negative, at most 1.25 * base, and less than one
\* nanosecond below 0.75 * base (the fraction of a nanosecond is dropped).
C13_JitterBandTruncated ==
    fout.set =>
        /\ BaseSaturates
        /\ fout.value >= 0
        /\ 4 * (fout.value + 1) > 3 * fout.base
        /\ 4 * fout.value <= 5 * fout.base

\* the capped base was jittered upwards and the wait returned is above
\* maxBackoff: it was not clamped again
C13_Witness ==
    /\ fout.set
    /\ fin.minBackoff * Pow2(fin.attempt) > fin.maxBackoff
    /\ fout.base = fin.maxBackoff
    /\ fout.value > fin.maxBackoff

\* ------------------------------------------------------------------ claims: the backoff timer
\* C15: once the backoff wait of the Retry Executor has resolved, by the
\* timer firing or by cancellation, no timer started for it is still
\* pending; after a call returned a cancellation error from its backoff
\* wait no backoff timer of the call remains.
C15_NoResidualTimer == InBackoff \/ timers = 0

\* ------------------------------------------------------------------ claims: the timeout interceptor
\* the timeout layer that made derived[i] is still inside its call of next
Delegating(i) ==
    /\ i \in InForce
    /\ pc = "running"
    /\ Depth >= derived[i].layer
    /\ stack[derived[i].layer].pc = "called"

\* C16: the Timeout interceptor delegates under a context derived from the
\* request's own: the layers beneath it see it done exactly when the parent
\* is cancelled, the timeout has expired or the interceptor has returned;
\* the caller's context is left as the caller has it (done only by the
\* caller's cancellation), and on every exit path the derived context is
\* released by the time the interceptor has returned.
C16_DerivedContextReleased ==
    /\ \A i \in 1..Len(derived) : Delegating(i) \/ derived[i].released
    /\ \A i \in InForce :
          /\ CtxDone(derived[i].layer + 1)
                <=> (CtxDone(derived[i].layer) \/ derived[i].expired \/ derived[i].released)
          /\ CtxDone(derived[i].layer) <=> ctxDone
    /\ ctxDone <=> cancelAt.where # "none"
    /\ pc = "done" => \A i \in 1..Len(derived) : derived[i].released

\* the timeout expired, the retry layer beneath gave up with a cancellation
\* error, and the interceptor returned with its context released while the
\* caller's context was never cancelled
C16_Witness ==
    /\ pc = "done"
    /\ Len(derived) = 1
    /\ derived[1].expired
    /\ derived[1].released
    /\ result.err = CtxErr
    /\ ~ctxDone

\* C20: when the Timeout interceptor returns a successful response, the
\* context under which the response was obtained is already cancelled, so
\* every read of the response's body by the caller comes after that
\* cancellation.
C20_CancelPrecedesBodyRead ==
    /\ (pc = "running" /\ ret.set /\ ret.err = NilErr /\ ret.resp # NilResp
          /\ LayerAt(Depth + 1).kind = "timeout") => CtxDone(Depth + 2)
    /\ bodyRead # "live"

\* a 200 response was returned, the caller never cancelled and no timeout
\* expired, and the caller's read of the body met a cancelled context
C20_Witness ==
    /\ bodyRead = "cancelled"
    /\ result.resp.status = 200
    /\ ~ctxDone
    /\ \A i \in 1..Len(derived) : ~derived[i].expired

\* ------------------------------------------------------------------ claims: interceptors over the retry layer
\* the number of times middleware m occurs in trace q
Occurrences(q, m) == Cardinality({i \in 1..Len(q) : q[i] = m})

\* r is the final outcome of the retried sequence: a cancellation error, or
\* the outcome of the last base invocation made, which the predicate did not
\* ask to retry or which was the last attempt allowed
FinalOfSequence(r) ==
    \/ r = CancelResult
    \/ /\ calls >= 1
       /\ calls <= opts.MaxRetries + 1
       /\ r = BaseOutcome(calls)
       /\ \/ calls = opts.MaxRetries + 1
          \/ ~RetryIf(retryIfOf(opts), r.resp, r.err)

\* C17: in a chain built by buildMiddlewareChain every user interceptor is
\* entered exactly once per call and observes exactly one outcome, the final
\* outcome of the retried sequence, however many base invocations (1 to
\* maxRetries+1) the retry layer makes.
C17_InterceptorsSeeFinalOutcome ==
    /\ \A m \in 1..Len(opts.Middlewares) :
          /\ Occurrences(reqTrace, m) <= 1
          /\ Occurrences(respTrace, m) <= 1
          /\ pc = "done" => Occurrences(reqTrace, m) = 1 /\ Occurrences(respTrace, m) = 1
    /\ (pc = "running" /\ TopLayer.kind = "mw" /\ Top.pc = "called" /\ ret.set)
          => FinalOfSequence(ret)
    /\ pc = "done" => FinalOfSequence(result)

\* two interceptors each ran once around a sequence of three base invocations
C17_Witness ==
    /\ pc = "done"
    /\ opts.MaxRetries = 2
    /\ calls = 3
    /\ Len(opts.Middlewares) = 2
    /\ Len(reqTrace) = 2
    /\ Len(respTrace) = 2
    /\ result = BaseOutcome(3)

\* ------------------------------------------------------------------ claims: retries after a rebuild
\* every retry layer of the transport was constructed for opts.MaxRetries
RetryAsConstructed ==
    /\ opts.MaxRetries >= 1
    /\ RetryLayers(transport) >= 1
    /\ \A i \in 1..Len(transport) :
          transport[i].kind = "retry" =>
              /\ transport[i].maxRetries = opts.MaxRetries
              /\ transport[i].retryIf = retryIfOf(opts)

\* C18: for a client constructed with maxRetries = N >= 1, after
\* Client.WithMiddleware calls one request invokes the base transport at
\* most N+1 times, and exactly N+1 times when every outcome is
\* retry-eligible and the context is never cancelled.
C18_RebuildKeepsAttemptBound ==
    (nrebuilds > 0 /\ RetryAsConstructed) =>
        /\ calls <= opts.MaxRetries + 1
        /\ (/\ pc = "done" /\ ~ctxDone
            /\ \A i \in 1..ScriptLen :
                  RetryIf(retryIfOf(opts), BaseOutcome(i).resp, BaseOutcome(i).err))
           => calls = opts.MaxRetries + 1

\* ------------------------------------------------------------------ claims: pre-cancelled composite calls
\* C19 as stated: for every maxRetries >= 0 a composite call whose context
\* is already cancelled makes no base invocation and returns a cancellation
\* error.
C19_PreCancelledComposite ==
    cancelAt.where = "entry" =>
        /\ calls = 0
        /\ pc = "done" => result = CancelResult

\* C19 amended: with maxRetries >= 1 a composite call whose context is
\* already cancelled makes no base invocation and returns a cancellation
\* error; with maxRetries = 0 there is no retry layer, the base transport is
\* invoked exactly once and its outcome is returned.
C19_PreCancelledWithRetryLayer ==
    cancelAt.where = "entry" =>
        IF opts.MaxRetries >= 1
        THEN /\ calls = 0
             /\ pc = "done" => result = CancelResult
        ELSE /\ calls <= 1
             /\ pc = "done" => calls = 1 /\ result = BaseOutcome(1)

\* a pre-cancelled call passed two interceptors, was refused by the retry
\* layer and came back with the cancellation error
C19_Witness ==
    /\ pc = "done"
    /\ cancelAt.where = "entry"
    /\ opts.MaxRetries >= 1
    /\ reqTrace = <<1, 2>>
    /\ respTrace = <<2, 1>>
    /\ calls = 0
    /\ result = CancelResult

\* ------------------------------------------------------------------ claims: concurrent calls
\* the number of base invocations the executor makes for a base transport
\* behaving as sc when the context is never cancelled
InvocationsFor(sc) ==
    CHOOSE i \in 1..(Executor.maxRetries + 1) :
        /\ \/ i = Executor.maxRetries + 1
           \/ ~RetryIf(Executor.retryIf, ScriptOutcome(sc, i).resp, ScriptOutcome(sc, i).err)
        /\ \A j \in 1..(i - 1) :
              RetryIf(Executor.retryIf, ScriptOutcome(sc, j).resp, ScriptOutcome(sc, j).err)

\* C14: of several calls running concurrently through one retry transport,
\* each makes at most maxRetries+1 base invocations, each one's result is
\* determined by the outcomes of its own invocations, and only a call whose
\* own context was cancelled returns a cancellation error or stops early.
C14_CallsAreIndependent ==
    \A c \in DOMAIN inflight :
        LET k == inflight[c]
        IN /\ k.calls <= Executor.maxRetries + 1
           /\ k.pc = "done" =>
                 \/ k.ctxDone /\ k.result = CancelResult
                 \/ /\ k.calls = InvocationsFor(k.script)
                    /\ k.result = ScriptOutcome(k.script, k.calls)
           /\ (k.pc = "done" /\ ~k.ctxDone) =>
                 /\ k.calls = InvocationsFor(k.script)
                 /\ k.result = ScriptOutcome(k.script, k.calls)

\* call a was cancelled in its backoff wait while call b, started before
\* that, went on through all its attempts and returned its last outcome
C14_Witness ==
    /\ DOMAIN inflight = CallIds
    /\ inflight["a"].pc = "done"
    /\ inflight["a"].calls = 1
    /\ inflight["a"].result = CancelResult
    /\ inflight["b"].pc = "done"
    /\ ~inflight["b"].ctxDone
    /\ inflight["b"].calls = Executor.maxRetries + 1
    /\ inflight["b"].calls >= 2
    /\ inflight["b"].result = ScriptOutcome(inflight["b"].script, inflight["b"].calls)

\* ------------------------------------------------------------------ claims: ResponseHandler
\* C21: Into and Bytes return the handler's error without touching the
\* response if the handler holds one; otherwise they close the body exactly
\* once on every return path and return an HTTPError with the response's
\* status code if and only if the status code is outside [200, 300).
C21_HandlerClosesAndClassifies ==
    fout.set =>
        IF fin.err # NilErr
        THEN /\ fout.ret = HandlerErr(fin.err)
             /\ fout.closes = 0
             /\ fout.reads = 0
        ELSE /\ fout.closes = 1
             /\ fout.ret.kind = "HTTPError"
                   <=> ~(fin.resp.status >= 200 /\ fin.resp.status < 300)
             /\ fout.ret.kind = "HTTPError" => fout.ret.status = fin.resp.status

\* a 300 response was turned into an HTTPError 300 and its body closed once
C21_Witness ==
    /\ fout.set
    /\ fin.err = NilErr
    /\ fin.resp.status = 300
    /\ fout.ret = HTTPError(300)
    /\ fout.closes = 1

\* ------------------------------------------------------------------ claims: the built-in interceptors
\* the request is being returned to, or has been returned through, a
\* built-in interceptor
AtBuiltin == pc = "running" /\ TopLayer.kind \in {"logging", "metrics"}

\* C22: the Logging and Metrics interceptors invoke the next transport
\* exactly once with the request they were given (the same context, no
\* derived one), hand back exactly the (response, error) pair it produced,
\* and never close or read the response's body.
C22_BuiltinsTransparent ==
    /\ IsPrefix(reqTrace, opts.Middlewares)
    /\ IsPrefix(respTrace, Reverse(opts.Middlewares))
    /\ derived = <<>>
    /\ bodyRead = "none"
    /\ (AtBuiltin /\ Top.pc = "called" /\ ret.set) =>
          /\ FinalOfSequence(ret)
          /\ ret.resp # NilResp => closes[ret.resp.id] = 0
    /\ pc = "done" =>
          /\ reqTrace = opts.Middlewares
          /\ respTrace = Reverse(opts.Middlewares)
          /\ FinalOfSequence(result)
          /\ result.resp # NilResp => closes[result.resp.id] = 0
          /\ opts.MaxRetries = 0 => calls = 1

\* a 503 that ended a sequence of two invocations came back through the
\* Logging and the Metrics interceptor with its body not closed
C22_Witness ==
    /\ pc = "done"
    /\ opts.Middlewares = <<LoggingMw, MetricsMw>>
    /\ opts.MaxRetries = 1
    /\ calls = 2
    /\ result = BaseOutcome(2)
    /\ result.resp.status = 503
    /\ closes[2] = 0
    /\ closes[1] = 1

====
